---- MODULE Spec2Model ----
(***************************************************************************)
(* Nephro-AI CDSS (src/app.py): a Streamlit script that is re-run from top *)
(* to bottom on every interaction.  One run loads the cached model, reads  *)
(* the form, and on submission builds the feature frame, scores it, shows  *)
(* the probability and the risk tier, tries to draw the SHAP explanation   *)
(* and, if the user opted in, appends the case to the Nephro_DB sheet.     *)
(*                                                                         *)
(* Real numbers are fixed point: clinical values in hundredths, the        *)
(* probability in units of 1/ProbScale.                                    *)
(***************************************************************************)
EXTENDS Integers, Sequences, FiniteSets, TLC

VARIABLES
    artifact,     \* Nephro_Brain_Final.pkl on disk: 0 = unreadable, s = pickled estimator of schema s
    cache,        \* st.cache_resource entry of load_model_v3
    loads,        \* number of joblib.load calls made so far
    model,        \* module-level `model` of the current run
    run,          \* number of script runs started
    pc,           \* position of the current run in the script
    submitted,    \* st.form_submit_button result of the current run
    obs,          \* the nine form inputs cr, delta_cr, k, bicarb, bun, ph, uo, fluid, enceph
    save_data,    \* the "Contribute this case" checkbox
    input_data,   \* the one-row DataFrame, as its columns in order
    scored,       \* the frame predict_proba was called with (<<>> before the call)
    risk_prob,    \* float(risk_prob_raw), NoProb while undefined
    screen,       \* widgets written by this run, in order
    calls,        \* external collaborators called by this run, in order
    sheet,        \* rows of Nephro_DB.sheet1
    owner,        \* for each row of sheet, the run that appended it
    outcome       \* for each run, how its save step ended

vars == << artifact, cache, loads, model, run, pc, submitted, obs, save_data,
           input_data, scored, risk_prob, screen, calls, sheet, owner, outcome >>

----------------------------------------------------------------------------
(* Bounds of the model *)

MaxRuns == 2

----------------------------------------------------------------------------
(* Fixed point scales *)

\* probabilities are multiples of 1/4000: thousandths, their halves and quarters
ProbScale == 4 * 1000

NoProb == 0 - 1

Range(s) == { s[i] : i \in 1..Len(s) }

----------------------------------------------------------------------------
(* The model artifact and its cached handle *)

\* feature_names_in_ of the estimators the artifact may hold
Schemas == <<
    [ exposes |-> FALSE, names |-> << >> ],
    [ exposes |-> TRUE,
      names |-> << "creatinine", "delta_Cr_24h", "potassium", "bicarbonate", "bun",
                   "ph_level", "fluid_overload_grade", "uremic_encephalopathy",
                   "urine_output_24h" >> ],
    [ exposes |-> TRUE,
      names |-> << "creatinine", "delta_Cr_24h", "potassium", "bicarbonate", "bun",
                   "ph_level", "urine_output_24h", "fluid_overload_grade",
                   "uremic_encephalopathy" >> ],
    [ exposes |-> TRUE,
      names |-> << "urine_output_24h", "creatinine", "potassium", "bicarbonate", "bun",
                   "ph_level", "fluid_overload_grade", "uremic_encephalopathy" >> ],
    [ exposes |-> TRUE,
      names |-> << "creatinine", "delta_Cr_24h", "potassium", "bicarbonate", "bun",
                   "ph_level", "fluid_overload_grade", "uremic_encephalopathy",
                   "urine_output_24h", "age" >> ]
>>

SchemaIds == 1..Len(Schemas)

Absent == [ present |-> FALSE, schema |-> 0 ]

Handle(s) == [ present |-> TRUE, schema |-> s ]

\* joblib.load inside try/except: the estimator, or None when loading raises
JoblibLoad(file) == IF file \in SchemaIds THEN Handle(file) ELSE Absent

EmptyCache == [ filled |-> FALSE, value |-> Absent ]

\* load_model_v3 without the cache decorator
load_model_v3_Uncached == JoblibLoad(artifact)

\* load_model_v3 under st.cache_resource: the body runs on the first call only,
\* and what it returned (None included) is handed out on every later call
load_model_v3 ==
    IF cache.filled THEN cache.value ELSE JoblibLoad(artifact)

----------------------------------------------------------------------------
(* The form *)

\* the spec's reference observation: the widgets' default values
ObsDefault ==
    [ cr |-> 2000, delta_cr |-> 0, k |-> 4500, bicarb |-> 24000, bun |-> 40000,
      ph |-> 7400, uo |-> 1500000, fluid |-> 0, enceph |-> FALSE ]

ObsOther ==
    [ cr |-> 8100, delta_cr |-> 0 - 500, k |-> 6200, bicarb |-> 14000, bun |-> 110000,
      ph |-> 7150, uo |-> 200000, fluid |-> 3, enceph |-> TRUE ]

\* what the widgets let through: min_value / max_value of the number inputs,
\* the options of the selectbox
WidgetAccepts(o) ==
    /\ o.cr >= 0 /\ o.k >= 0 /\ o.bicarb >= 0 /\ o.bun >= 0 /\ o.uo >= 0
    /\ o.ph >= 6800 /\ o.ph <= 7600
    /\ o.fluid \in 0..3
    /\ o.enceph \in BOOLEAN

Observations == { o \in { ObsDefault, ObsOther } : WidgetAccepts(o) }

----------------------------------------------------------------------------
(* Feature frame *)

Column(n, v) == [ name |-> n, value |-> v ]

Columns(df) == [ i \in 1..Len(df) |-> df[i].name ]

\* pd.DataFrame({...}) of the nine inputs, in the order the literal lists them
DataFrame(o) ==
    << Column("creatinine", o.cr), Column("delta_Cr_24h", o.delta_cr),
       Column("potassium", o.k), Column("bicarbonate", o.bicarb),
       Column("bun", o.bun), Column("ph_level", o.ph),
       Column("fluid_overload_grade", o.fluid),
       Column("uremic_encephalopathy", IF o.enceph THEN 1 ELSE 0),
       Column("urine_output_24h", o.uo) >>

\* df[names]: the named columns in the order asked for
Select(df, names) ==
    [ i \in 1..Len(names) |-> CHOOSE c \in Range(df) : c.name = names[i] ]

\* the reordering done by column position in the frame as first built, not by name
Reorder_ByPosition(df, h) ==
    IF /\ h.present
       /\ Schemas[h.schema].exposes
       /\ Range(Schemas[h.schema].names) \subseteq Range(Columns(df))
    THEN IF Len(Schemas[h.schema].names) = Len(df)
         THEN [ i \in 1..Len(df) |->
                  df[CHOOSE j \in 1..Len(Schemas[2].names) :
                        Schemas[2].names[j] = Schemas[h.schema].names[i]] ]
         ELSE Select(df, Schemas[h.schema].names)
    ELSE df

\* try: input_data = input_data[model.feature_names_in_]  except: pass
\* AttributeError (no feature_names_in_) and KeyError (a name that is no column
\* of the frame) both leave the frame as it was built
Reorder(df, h) ==
    IF /\ h.present
       /\ Schemas[h.schema].exposes
       /\ Range(Schemas[h.schema].names) \subseteq Range(Columns(df))
    THEN Select(df, Schemas[h.schema].names)
    ELSE df

----------------------------------------------------------------------------
(* Risk tier and number formatting *)

HighThreshold == (75 * ProbScale) \div 100

ModerateThreshold == (40 * ProbScale) \div 100

Widget(kind, text) == [ w |-> kind, msg |-> text, val |-> << >> ]

HighText == "HIGH RISK: Consider Dialysis Initiation"

ModerateText == "MODERATE RISK: Monitor Closely"

LowText == "LOW RISK: Conservative Management"

\* the thresholds taken inclusively
TierWidget_Inclusive(p) ==
    IF p >= HighThreshold THEN Widget("error", HighText)
    ELSE IF p >= ModerateThreshold THEN Widget("warning", ModerateText)
         ELSE Widget("success", LowText)

\* if risk_prob > 0.75 ... elif risk_prob > 0.40 ... else
TierWidget(p) ==
    IF p > HighThreshold THEN Widget("error", HighText)
    ELSE IF p > ModerateThreshold THEN Widget("warning", ModerateText)
         ELSE Widget("success", LowText)

\* n / d rounded to the nearest integer, an exact half going to the even neighbour
RoundHalfEven(n, d) ==
    LET q == n \div d
        r == n % d
    IN  IF 2 * r < d THEN q
        ELSE IF 2 * r > d THEN q + 1
        ELSE IF q % 2 = 0 THEN q ELSE q + 1

\* a binary float is never exactly half way between two thousandths unless it is
\* itself a binary fraction (a multiple of 1/32 on this grid)
IsFloat(p) == (p % 4 = 2) => (p % 125 = 0)

\* round(risk_prob, 3), in thousandths
Round3(p) == RoundHalfEven(p, ProbScale \div 1000)

DigitChar(d) == << "0", "1", "2", "3", "4", "5", "6", "7", "8", "9" >>[d + 1]

RECURSIVE Decimal(_)
Decimal(n) == IF n < 10 THEN << DigitChar(n) >>
              ELSE Append(Decimal(n \div 10), DigitChar(n % 10))

\* f"{risk_prob:.1%}": the percentage with one decimal
FormatPercent(p) ==
    LET t == RoundHalfEven(p, ProbScale \div 1000)
    IN  Decimal(t \div 10) \o << ".", DigitChar(t % 10), "%" >>

MetricWidget(p) ==
    [ w |-> "metric", msg |-> "Dialysis Probability", val |-> FormatPercent(p) ]

----------------------------------------------------------------------------
(* Case log row *)

Pad2(n) == << DigitChar((n \div 10) % 10), DigitChar(n % 10) >>

Pad4(n) == Pad2(n \div 100) \o Pad2(n % 100)

\* strftime("%Y-%m-%d %H:%M:%S")
Strftime(t) ==
    Pad4(t.year) \o << "-" >> \o Pad2(t.month) \o << "-" >> \o Pad2(t.day)
    \o << " " >> \o
    Pad2(t.hour) \o << ":" >> \o Pad2(t.minute) \o << ":" >> \o Pad2(t.second)

\* datetime.datetime.now(): instants the clock may show
Clock ==
    { [ year |-> 2024, month |-> 1, day |-> 5, hour |-> 9, minute |-> 3, second |-> 7 ],
      [ year |-> 2025, month |-> 12, day |-> 31, hour |-> 23, minute |-> 59, second |-> 58 ] }

PyStr(s) == [ t |-> "str", v |-> s ]

PyFloat(x) == [ t |-> "float", v |-> x ]

\* int(fluid): the selectbox option, already an integer
PyInt(x) == [ t |-> "int", v |-> x ]

\* int(enceph): the checkbox's bool as 0 / 1
PyIntOfBool(b) == [ t |-> "int", v |-> IF b THEN 1 ELSE 0 ]

\* the row laid out in the order of the training columns, urine output before
\* the two clinical signs
LogRow_TrainingOrder(o, p, now) ==
    << PyStr(Strftime(now)), PyFloat(o.cr), PyFloat(o.delta_cr), PyFloat(o.k),
       PyFloat(o.bicarb), PyFloat(o.bun), PyFloat(o.ph), PyFloat(o.uo),
       PyInt(o.fluid), PyIntOfBool(o.enceph), PyFloat(Round3(p)) >>

\* log_row = [str(timestamp), float(cr), ..., int(fluid), int(enceph), float(uo),
\*            round(risk_prob, 3)]
LogRow(o, p, now) ==
    << PyStr(Strftime(now)), PyFloat(o.cr), PyFloat(o.delta_cr), PyFloat(o.k),
       PyFloat(o.bicarb), PyFloat(o.bun), PyFloat(o.ph), PyInt(o.fluid),
       PyIntOfBool(o.enceph), PyFloat(o.uo), PyFloat(Round3(p)) >>

----------------------------------------------------------------------------
(* External collaborators: what they may answer *)

\* predict_proba(input_data)[0][1] as a float: a sample of the grid around the
\* tier thresholds and the rounding cases
Probabilities ==
    { p \in { 250, 1600, 1601, 3000, 3001, 3320 } : IsFloat(p) }

\* where the SHAP block raises, if it does
ExplainFailures == { "none", "TreeExplainer", "waterfall" }

\* where add_to_database raises, if it does
DbFailures == { "none", "authorize", "append_row" }

----------------------------------------------------------------------------
(* The script *)

Between == { "start", "done", "crashed" }

Init ==
    /\ artifact \in 0..Len(Schemas)
    /\ cache = EmptyCache
    /\ loads = 0
    /\ model = Absent
    /\ run = 0
    /\ pc = "start"
    /\ submitted = FALSE
    /\ obs = ObsDefault
    /\ save_data = FALSE
    /\ input_data = << >>
    /\ scored = << >>
    /\ risk_prob = NoProb
    /\ screen = << >>
    /\ calls = << >>
    /\ sheet = << >>
    /\ owner = << >>
    /\ outcome = [ r \in 1..MaxRuns |-> "none" ]

\* what the environment may put in place of the artifact: nothing readable, or
\* a retrained estimator with another column order
Redeployed == { 0, 3 }

\* the artifact on disk is removed or replaced between two runs
ReplaceArtifact ==
    /\ pc \in Between
    /\ run < MaxRuns
    /\ artifact' \in Redeployed \ { artifact }
    /\ UNCHANGED << cache, loads, model, run, pc, submitted, obs, save_data,
                    input_data, scored, risk_prob, screen, calls, sheet, owner,
                    outcome >>

\* a rerun starts: model = load_model_v3()
RunScript ==
    /\ pc \in Between
    /\ run < MaxRuns
    /\ run' = run + 1
    /\ model' = load_model_v3
    /\ cache' = [ filled |-> TRUE, value |-> load_model_v3 ]
    /\ loads' = IF cache.filled THEN loads ELSE loads + 1
    /\ pc' = "form"
    /\ submitted' = FALSE
    /\ obs' = ObsDefault
    /\ save_data' = FALSE
    /\ input_data' = << >>
    /\ scored' = << >>
    /\ risk_prob' = NoProb
    /\ screen' = << >>
    /\ calls' = << >>
    /\ UNCHANGED << artifact, sheet, owner, outcome >>

\* the form without the `if model:` test
Form_NoModelCheck ==
    /\ pc = "form"
    /\ \E o \in Observations, sv \in BOOLEAN, sb \in BOOLEAN :
          /\ obs' = o
          /\ save_data' = sv
          /\ submitted' = sb
          /\ pc' = IF ~sb THEN "done" ELSE "build"
    /\ UNCHANGED << artifact, cache, loads, model, run, input_data, scored,
                    risk_prob, screen, calls, sheet, owner, outcome >>

\* with st.form(...): the widgets' values, and `if submitted: if model: ... else:`
Form ==
    /\ pc = "form"
    /\ \E o \in Observations, sv \in BOOLEAN, sb \in BOOLEAN :
          /\ obs' = o
          /\ save_data' = sv
          /\ submitted' = sb
          /\ pc' = IF ~sb THEN "done"
                   ELSE IF model.present THEN "build" ELSE "nomodel"
    /\ UNCHANGED << artifact, cache, loads, model, run, input_data, scored,
                    risk_prob, screen, calls, sheet, owner, outcome >>

NotFoundText == "AI Brain (Model) not found. Check GitHub files."

\* else: st.error("AI Brain (Model) not found ...")
ModelNotFound ==
    /\ pc = "nomodel"
    /\ screen' = Append(screen, Widget("error", NotFoundText))
    /\ pc' = "done"
    /\ UNCHANGED << artifact, cache, loads, model, run, submitted, obs, save_data,
                    input_data, scored, risk_prob, calls, sheet, owner, outcome >>

\* 1. Create Dataframe, and ensure column order matches the brain
BuildInput ==
    /\ pc = "build"
    /\ input_data' = Reorder(DataFrame(obs), model)
    /\ pc' = "predict"
    /\ UNCHANGED << artifact, cache, loads, model, run, submitted, obs, save_data,
                    scored, risk_prob, screen, calls, sheet, owner, outcome >>

\* 2. Predict
Predict ==
    /\ pc = "predict"
    /\ model.present
    /\ scored' = input_data
    /\ calls' = Append(calls, "predict_proba")
    /\ \E p \in Probabilities : risk_prob' = p
    /\ pc' = "show"
    /\ UNCHANGED << artifact, cache, loads, model, run, submitted, obs, save_data,
                    input_data, screen, sheet, owner, outcome >>

\* predict_proba raises (the estimator rejects the frame, or there is no
\* estimator to call): nothing catches it and the run ends with Streamlit's
\* exception box
PredictRaises ==
    /\ pc = "predict"
    /\ scored' = input_data
    /\ calls' = Append(calls, "predict_proba")
    /\ screen' = Append(screen, Widget("exception", "predict_proba"))
    /\ pc' = "crashed"
    /\ UNCHANGED << artifact, cache, loads, model, run, submitted, obs, save_data,
                    input_data, risk_prob, sheet, owner, outcome >>

\* 3. Show Result
ShowResult ==
    /\ pc = "show"
    /\ screen' = screen \o << Widget("divider", ""), MetricWidget(risk_prob),
                              TierWidget(risk_prob) >>
    /\ pc' = "explain"
    /\ UNCHANGED << artifact, cache, loads, model, run, submitted, obs, save_data,
                    input_data, scored, risk_prob, calls, sheet, owner, outcome >>

\* the calls of the SHAP block made before it raises at `f` (all of them on "none")
ExplainCalls(f) ==
    IF f = "TreeExplainer" THEN << "TreeExplainer" >>
    ELSE << "TreeExplainer", "shap_values", "waterfall" >>

ExplainWarningText == "Could not generate explanation graph"

\* the SHAP block without its try / except
Explain_Uncaught ==
    /\ pc = "explain"
    /\ \E f \in ExplainFailures :
          /\ calls' = calls \o ExplainCalls(f)
          /\ screen' = screen \o
                << Widget("subheader", "Why did the AI make this decision?"),
                   Widget("caption", "Red bars = Increased Risk | Blue bars = Decreased Risk"),
                   IF f = "none" THEN Widget("pyplot", "")
                   ELSE Widget("exception", f) >>
          /\ pc' = IF f = "none" THEN "save" ELSE "crashed"
    /\ UNCHANGED << artifact, cache, loads, model, run, submitted, obs, save_data,
                    input_data, scored, risk_prob, sheet, owner, outcome >>

\* 4. SHAP graph inside try / except Exception
Explain ==
    /\ pc = "explain"
    /\ \E f \in ExplainFailures :
          /\ calls' = calls \o ExplainCalls(f)
          /\ screen' = screen \o
                << Widget("subheader", "Why did the AI make this decision?"),
                   Widget("caption", "Red bars = Increased Risk | Blue bars = Decreased Risk"),
                   IF f = "none" THEN Widget("pyplot", "")
                   ELSE Widget("warning", ExplainWarningText) >>
    /\ pc' = "save"
    /\ UNCHANGED << artifact, cache, loads, model, run, submitted, obs, save_data,
                    input_data, scored, risk_prob, sheet, owner, outcome >>

\* the calls add_to_database makes before it raises at `f`
DbCalls(f) ==
    IF f = "authorize" THEN << "add_to_database", "authorize" >>
    ELSE << "add_to_database", "authorize", "append_row" >>

DbErrorText == "Database Error"

SavedText == "Saved for training!"

\* a failed append_row tried a second time
SaveToCloud_Retry ==
    /\ pc = "save"
    /\ save_data
    /\ \E now \in Clock, f \in DbFailures :
          /\ calls' = calls \o DbCalls(f)
                         \o (IF f = "append_row" THEN << "append_row" >> ELSE << >>)
          /\ IF f \in { "none", "append_row" }
             THEN /\ sheet' = Append(sheet, LogRow(obs, risk_prob, now))
                  /\ owner' = Append(owner, run)
                  /\ screen' = Append(screen, Widget("toast", SavedText))
                  /\ outcome' = [ outcome EXCEPT ![run] = "saved" ]
             ELSE /\ UNCHANGED << sheet, owner >>
                  /\ screen' = Append(screen, Widget("error", DbErrorText))
                  /\ outcome' = [ outcome EXCEPT ![run] = "failed" ]
    /\ pc' = "done"
    /\ UNCHANGED << artifact, cache, loads, model, run, submitted, obs, save_data,
                    input_data, scored, risk_prob >>

\* add_to_database without its try / except
SaveToCloud_Uncaught ==
    /\ pc = "save"
    /\ save_data
    /\ \E now \in Clock, f \in DbFailures :
          /\ calls' = calls \o DbCalls(f)
          /\ IF f = "none"
             THEN /\ sheet' = Append(sheet, LogRow(obs, risk_prob, now))
                  /\ owner' = Append(owner, run)
                  /\ screen' = Append(screen, Widget("toast", SavedText))
                  /\ outcome' = [ outcome EXCEPT ![run] = "saved" ]
                  /\ pc' = "done"
             ELSE /\ UNCHANGED << sheet, owner >>
                  /\ screen' = Append(screen, Widget("exception", f))
                  /\ outcome' = [ outcome EXCEPT ![run] = "failed" ]
                  /\ pc' = "crashed"
    /\ UNCHANGED << artifact, cache, loads, model, run, submitted, obs, save_data,
                    input_data, scored, risk_prob >>

\* 5. Save to Cloud: if save_data: log_row = ...; if add_to_database(log_row): toast
SaveToCloud ==
    /\ pc = "save"
    /\ save_data
    /\ \E now \in Clock, f \in DbFailures :
          /\ calls' = calls \o DbCalls(f)
          /\ IF f = "none"
             THEN /\ sheet' = Append(sheet, LogRow(obs, risk_prob, now))
                  /\ owner' = Append(owner, run)
                  /\ screen' = Append(screen, Widget("toast", SavedText))
                  /\ outcome' = [ outcome EXCEPT ![run] = "saved" ]
             ELSE /\ UNCHANGED << sheet, owner >>
                  /\ screen' = Append(screen, Widget("error", DbErrorText))
                  /\ outcome' = [ outcome EXCEPT ![run] = "failed" ]
    /\ pc' = "done"
    /\ UNCHANGED << artifact, cache, loads, model, run, submitted, obs, save_data,
                    input_data, scored, risk_prob >>

\* the save step without the `if save_data:` test
SkipSave_SavesAnyway ==
    /\ pc = "save"
    /\ ~save_data
    /\ \E now \in Clock :
          /\ calls' = calls \o DbCalls("none")
          /\ sheet' = Append(sheet, LogRow(obs, risk_prob, now))
          /\ owner' = Append(owner, run)
          /\ screen' = Append(screen, Widget("toast", SavedText))
          /\ outcome' = [ outcome EXCEPT ![run] = "saved" ]
    /\ pc' = "done"
    /\ UNCHANGED << artifact, cache, loads, model, run, submitted, obs, save_data,
                    input_data, scored, risk_prob >>

\* save_data is off: the script ends
SkipSave ==
    /\ pc = "save"
    /\ ~save_data
    /\ pc' = "done"
    /\ UNCHANGED << artifact, cache, loads, model, run, submitted, obs, save_data,
                    input_data, scored, risk_prob, screen, calls, sheet, owner,
                    outcome >>

Next ==
    \/ ReplaceArtifact
    \/ RunScript
    \/ Form
    \/ ModelNotFound
    \/ BuildInput
    \/ Predict
    \/ PredictRaises
    \/ ShowResult
    \/ Explain
    \/ SaveToCloud
    \/ SkipSave

Spec == Init /\ [][Next]_vars

----------------------------------------------------------------------------
(* The display and save stages over every probability of the grid: the first *)
(* run, right after predict_proba returned                                   *)

GridProbabilities == { p \in 0..ProbScale : IsFloat(p) }

InitGrid ==
    /\ artifact = 3
    /\ cache = [ filled |-> TRUE, value |-> JoblibLoad(artifact) ]
    /\ loads = 1
    /\ model = JoblibLoad(artifact)
    /\ run = 1
    /\ pc = "show"
    /\ submitted = TRUE
    /\ obs = ObsDefault
    /\ save_data \in BOOLEAN
    /\ input_data = Reorder(DataFrame(obs), model)
    /\ scored = input_data
    /\ risk_prob \in GridProbabilities
    /\ screen = << >>
    /\ calls = << "predict_proba" >>
    /\ sheet = << >>
    /\ owner = << >>
    /\ outcome = [ r \in 1..MaxRuns |-> "none" ]

NextGrid ==
    \/ ShowResult
    \/ Explain
    \/ SaveToCloud
    \/ SkipSave

SpecGrid == InitGrid /\ [][NextGrid]_vars

----------------------------------------------------------------------------
(* Properties *)

TierTexts == { HighText, ModerateText, LowText }

\* the tier messages on the screen of the current run
TierShown == SelectSeq(screen, LAMBDA x : x.msg \in TierTexts)

Displayed == pc \in { "explain", "save", "done" } /\ risk_prob # NoProb

\* C1: the tier shown is a function of the probability alone: HIGH above 0.75,
\* MODERATE above 0.40 and up to 0.75, LOW otherwise (0.40 itself is LOW, 0.75
\* itself is MODERATE), and a run that has a probability shows exactly one tier
\* message, a run without one shows none.
C1_TierOfProbability ==
    IF Displayed
    THEN /\ Len(TierShown) = 1
         /\ TierShown[1].msg =
               IF 100 * risk_prob > 75 * ProbScale THEN HighText
               ELSE IF 100 * risk_prob > 40 * ProbScale THEN ModerateText
               ELSE LowText
    ELSE Len(TierShown) = 0

C1_Witness ==
    /\ pc = "done"
    /\ 100 * risk_prob = 40 * ProbScale
    /\ TierShown = << Widget("success", LowText) >>

\* C2: with the model handle absent, a run scores nothing, shows no tier,
\* attempts no explanation and no append, never ends in an uncaught exception,
\* and a submitted run shows exactly the "model not found" error.
C2_AbsentModelSkipsAll ==
    (run >= 1 /\ ~model.present) =>
        /\ calls = << >>
        /\ scored = << >>
        /\ risk_prob = NoProb
        /\ run \notin Range(owner)
        /\ outcome[run] = "none"
        /\ pc \in { "form", "nomodel", "done" }
        /\ screen = IF pc = "done" /\ submitted
                    THEN << Widget("error", NotFoundText) >>
                    ELSE << >>

C2_Witness ==
    /\ run >= 1
    /\ ~model.present
    /\ pc = "done"
    /\ submitted
    /\ save_data
    /\ screen = << Widget("error", NotFoundText) >>

\* C3: with the save option off, the run makes no call to add_to_database or
\* append_row and adds no row, whatever the probability and whether or not the
\* explanation succeeded.
C3_NoSaveNoStoreCall ==
    (run >= 1 /\ ~save_data) =>
        /\ "add_to_database" \notin Range(calls)
        /\ "append_row" \notin Range(calls)
        /\ run \notin Range(owner)
        /\ outcome[run] = "none"

C3_Witness ==
    /\ pc = "done"
    /\ submitted
    /\ ~save_data
    /\ risk_prob > HighThreshold
    /\ "TreeExplainer" \in Range(calls)
    /\ "waterfall" \notin Range(calls)

SaveFailed == run >= 1 /\ outcome[run] = "failed"

\* C4: when the save step runs and the store fails, the step only adds one
\* "Database Error" message: the probability and everything already on the screen
\* stay as they were, no row is added, no confirmation is shown and the run ends
\* normally.
C4_StoreFailureContained ==
    /\ [](SaveFailed =>
            /\ pc = "done"
            /\ Len(TierShown) = 1
            /\ \E i \in 1..Len(screen) : screen[i].w = "metric"
            /\ screen[Len(screen)] = Widget("error", DbErrorText)
            /\ \A i \in 1..Len(screen) : screen[i].w # "toast"
            /\ run \notin Range(owner))
    /\ [][(pc = "save" /\ save_data /\ outcome'[run] # "saved") =>
            /\ pc' = "done"
            /\ outcome'[run] = "failed"
            /\ risk_prob' = risk_prob
            /\ screen' = Append(screen, Widget("error", DbErrorText))
            /\ sheet' = sheet]_vars

C4_Witness ==
    /\ SaveFailed
    /\ pc = "done"
    /\ "append_row" \in Range(calls)
    /\ risk_prob > ModerateThreshold

ExplainFailed ==
    \E i \in 1..Len(screen) : screen[i] = Widget("warning", ExplainWarningText)

\* C5: a failing explanation leaves a warning and nothing else: the metric and
\* the tier stay on the screen, the run goes on to the save step with the same
\* probability, inputs and save option, and with save on the append is attempted
\* and a row that gets written carries that probability, rounded.
C5_ExplainFailureContained ==
    /\ [](ExplainFailed =>
            /\ pc \in { "save", "done" }
            /\ Len(TierShown) = 1
            /\ \E i \in 1..Len(screen) : screen[i].w = "metric"
            /\ \A i \in 1..Len(screen) : screen[i].w # "pyplot"
            /\ (pc = "done" /\ save_data) =>
                  /\ "add_to_database" \in Range(calls)
                  /\ outcome[run] \in { "saved", "failed" }
                  /\ outcome[run] = "saved" =>
                        LET cell == sheet[Len(sheet)][Len(sheet[Len(sheet)])]
                        IN  /\ 1000 * risk_prob - cell.v * ProbScale <= ProbScale \div 2
                            /\ cell.v * ProbScale - 1000 * risk_prob <= ProbScale \div 2)
    /\ [][pc = "explain" =>
            /\ pc' = "save"
            /\ risk_prob' = risk_prob
            /\ obs' = obs
            /\ save_data' = save_data
            /\ SubSeq(screen', 1, Len(screen)) = screen]_vars

C5_Witness ==
    /\ ExplainFailed
    /\ pc = "done"
    /\ save_data
    /\ outcome[run] = "saved"

\* the fixed order the frame is built in
HardcodedOrder ==
    << "creatinine", "delta_Cr_24h", "potassium", "bicarbonate", "bun", "ph_level",
       "fluid_overload_grade", "uremic_encephalopathy", "urine_output_24h" >>

\* C6: the frame handed to predict_proba has exactly the model's feature names,
\* in the model's order, whenever the model exposes them, and the hardcoded
\* order only when it does not; each column holds the submitted value.
C6_ScoredInModelOrder ==
    (scored # << >> /\ model.present) =>
        /\ Columns(scored) =
              IF Schemas[model.schema].exposes
              THEN Schemas[model.schema].names
              ELSE HardcodedOrder
        /\ \A i \in 1..Len(scored) : scored[i] \in Range(DataFrame(obs))

\* C6 where the selection can be made (every exposed name is a column of the
\* frame): there the scored frame is in the model's order.
C6_ScoredInModelOrderWhenSelectable ==
    (scored # << >> /\ model.present
       /\ Range(Schemas[model.schema].names) \subseteq Range(HardcodedOrder)) =>
        /\ Columns(scored) =
              IF Schemas[model.schema].exposes
              THEN Schemas[model.schema].names
              ELSE HardcodedOrder
        /\ \A i \in 1..Len(scored) : scored[i] \in Range(DataFrame(obs))

\* C7: reordering what is already reordered changes nothing, and a frame that
\* is already in the model's order comes back as it was.
C7_ReorderIdempotent ==
    (input_data # << >> /\ model.present) =>
        /\ input_data = Reorder(DataFrame(obs), model)
        /\ Reorder(input_data, model) = input_data
        /\ \A v \in { DataFrame(obs), input_data } :
              (Schemas[model.schema].exposes
                 /\ Columns(v) = Schemas[model.schema].names)
              => Reorder(v, model) = v

C7_Witness ==
    /\ pc = "done"
    /\ model.present
    /\ input_data # << >>
    /\ input_data # DataFrame(obs)
    /\ Len(input_data) = Len(HardcodedOrder)
    /\ Columns(input_data) = Schemas[model.schema].names

DigitChars == { "0", "1", "2", "3", "4", "5", "6", "7", "8", "9" }

\* YYYY-MM-DD HH:MM:SS
IsTimestamp(str) ==
    /\ Len(str) = 19
    /\ str[5] = "-" /\ str[8] = "-"
    /\ str[11] = " "
    /\ str[14] = ":" /\ str[17] = ":"
    /\ \A i \in (1..19) \ { 5, 8, 11, 14, 17 } : str[i] \in DigitChars

\* v thousandths is a thousandth nearest to p
NearestThousandth(v, p) ==
    /\ 1000 * p - v * ProbScale <= ProbScale \div 2
    /\ v * ProbScale - 1000 * p <= ProbScale \div 2

\* C8 as stated: every row is timestamp, seven numeric clinical fields, the
\* fluid-overload integer, the encephalopathy 0/1 integer, urine output and the
\* rounded probability.
C8_RowLayoutAsStated ==
    \A i \in 1..Len(sheet) :
        /\ Len(sheet[i]) = 12
        /\ sheet[i][1].t = "str"
        /\ \A j \in 2..8 : sheet[i][j].t = "float"
        /\ sheet[i][9].t = "int"
        /\ sheet[i][10].t = "int"
        /\ sheet[i][11].t = "float"
        /\ sheet[i][12].t = "float"

\* C8, amended: every row is eleven primitive values: the timestamp string
\* YYYY-MM-DD HH:MM:SS, six numeric clinical fields (creatinine, delta
\* creatinine, potassium, bicarbonate, BUN, pH), the fluid-overload integer,
\* the encephalopathy 0/1 integer, urine output and the probability rounded to
\* three decimals; the row just written holds the submitted inputs, whatever
\* order the frame was put in for the model.
C8_RowLayout ==
    /\ \A i \in 1..Len(sheet) :
          /\ Len(sheet[i]) = 11
          /\ \A j \in 1..11 : sheet[i][j].t \in { "str", "float", "int" }
          /\ sheet[i][1].t = "str"
          /\ IsTimestamp(sheet[i][1].v)
          /\ \A j \in 2..7 : sheet[i][j].t = "float" /\ sheet[i][j].v \in Int
          /\ sheet[i][8].t = "int" /\ sheet[i][8].v \in 0..3
          /\ sheet[i][9].t = "int" /\ sheet[i][9].v \in { 0, 1 }
          /\ sheet[i][10].t = "float" /\ sheet[i][10].v \in Int
          /\ sheet[i][11].t = "float" /\ sheet[i][11].v \in 0..1000
    /\ (run >= 1 /\ outcome[run] = "saved") =>
          LET row == sheet[Len(sheet)]
          IN  /\ owner[Len(sheet)] = run
              /\ row[2].v = obs.cr
              /\ row[3].v = obs.delta_cr
              /\ row[4].v = obs.k
              /\ row[5].v = obs.bicarb
              /\ row[6].v = obs.bun
              /\ row[7].v = obs.ph
              /\ row[8].v = obs.fluid
              /\ row[9].v = 1 <=> obs.enceph
              /\ row[10].v = obs.uo
              /\ NearestThousandth(row[11].v, risk_prob)

C8_Witness ==
    /\ run >= 1
    /\ outcome[run] = "saved"
    /\ Len(sheet) = 2
    /\ obs = ObsOther
    /\ Columns(input_data) # HardcodedOrder
    /\ sheet[2][11].v = 62

Count(seq, x) == Cardinality({ i \in 1..Len(seq) : seq[i] = x })

\* C9: the handle is loaded at most once; every run uses the cached handle,
\* which never changes once set (a present one stays, an absent one stays
\* absent), and no stage of a run touches the handle or the cache.
C9_HandleLoadedOnce ==
    /\ [](/\ loads <= 1
          /\ run >= 1 => (cache.filled /\ loads = 1 /\ model = cache.value))
    /\ [][cache.filled => cache' = cache]_vars
    /\ [][run >= 1 => model' = model]_vars
    /\ [][pc \notin Between =>
            (model' = model /\ cache' = cache /\ loads' = loads)]_vars

C9_Witness ==
    /\ run >= 2
    /\ pc = "done"
    /\ submitted
    /\ model.present
    /\ JoblibLoad(artifact) # model

\* C10: a run calls add_to_database and append_row at most once; a run whose
\* save failed never owns a row, a run whose save succeeded owns exactly one,
\* and the outcome of a finished save never changes; the sheet only grows, one
\* row at a time, in the save step, after the metric and the tier are on the
\* screen.
C10_AppendAtMostOnce ==
    /\ [](/\ Count(calls, "add_to_database") <= 1
          /\ Count(calls, "append_row") <= 1
          /\ Len(owner) = Len(sheet)
          /\ \A r \in 1..run :
                /\ outcome[r] = "saved" => Count(owner, r) = 1
                /\ outcome[r] # "saved" => Count(owner, r) = 0
          /\ "append_row" \in Range(calls) =>
                /\ Len(TierShown) = 1
                /\ \E i \in 1..Len(screen) : screen[i].w = "metric")
    /\ [][sheet' # sheet =>
            /\ pc = "save"
            /\ Len(TierShown) = 1
            /\ \E i \in 1..Len(screen) : screen[i].w = "metric"
            /\ Len(sheet') = Len(sheet) + 1
            /\ SubSeq(sheet', 1, Len(sheet)) = sheet]_vars
    /\ [][\A r \in 1..run :
            outcome[r] # "none" => outcome'[r] = outcome[r]]_vars

C10_Witness ==
    /\ run = 2
    /\ pc = "done"
    /\ outcome[1] = "failed"
    /\ outcome[2] = "saved"
    /\ Len(sheet) = 1
    /\ owner = << 2 >>

====
